---- MODULE Spec2Model ----
(***************************************************************************)
(* CdpToolkit (cdp_langchain/agent_toolkits/cdp_toolkit.py): the adapter   *)
(* that wraps every action of the CDP_ACTIONS registry in a CdpTool bound  *)
(* to a CdpAgentkitWrapper and hands the list out through get_tools.       *)
(***************************************************************************)
EXTENDS Naturals, Sequences, FiniteSets

\* Longest registry explored.
MaxActions == 2
\* Most toolkits constructed in one run.
MaxToolkits == 2

\* Python's None.
None == "None"
\* An action descriptor whose attributes read and whose CdpTool builds.
NoError == "NoError"

(* The action descriptors the registry is filled from. `raises` is the      *)
(* exception that reading the descriptor's attributes or building its       *)
(* CdpTool raises, NoError when neither fails. get_balance and              *)
(* get_balance_v2 are distinct descriptors with an equal name.              *)
ActionPool ==
    { [name |-> "get_balance", description |-> "desc_get_balance",
       args_schema |-> "GetBalanceInput", func |-> "get_balance_fn",
       raises |-> NoError],
      [name |-> "transfer", description |-> "desc_transfer",
       args_schema |-> "TransferInput", func |-> "transfer_fn",
       raises |-> NoError],
      [name |-> "get_balance", description |-> "desc_get_balance_v2",
       args_schema |-> "TransferInput", func |-> "get_balance_v2_fn",
       raises |-> NoError],
      [name |-> "trade", description |-> "desc_trade",
       args_schema |-> "TradeInput", func |-> "trade_fn",
       raises |-> "AttributeError"],
      [name |-> "mint", description |-> "desc_mint",
       args_schema |-> "MintInput", func |-> "mint_fn",
       raises |-> "ValidationError"] }

\* The CdpAgentkitWrapper objects a caller may pass, by identity.
WrapperIds == {"w1", "w2"}

\* All sequences over S of length at most n.
SeqUpTo(S, n) == UNION { [1..k -> S] : k \in 0..n }

VARIABLES
    CDP_ACTIONS,          \* the module-level action registry (a list)
    cdp_agentkit_wrappers,\* the credentials objects: id -> their state
    class_tools,          \* the class attribute CdpToolkit.tools, default []
    toolkits,             \* the CdpToolkit instances, in order of construction
    history,              \* per toolkit: what its construction call was given
    last                  \* the last call and its outcome

vars == <<CDP_ACTIONS, cdp_agentkit_wrappers, class_tools, toolkits, history, last>>

\* CdpTool(name=, description=, cdp_agentkit_wrapper=, args_schema=, func=)
CdpTool(name, description, cdp_agentkit_wrapper, args_schema, func) ==
    [name |-> name, description |-> description,
     cdp_agentkit_wrapper |-> cdp_agentkit_wrapper,
     args_schema |-> args_schema, func |-> func]

\* MakeTool with description=action.name.
MakeTool_name_as_description(action, cdp_agentkit_wrapper) ==
    CdpTool(action.name, action.name, cdp_agentkit_wrapper,
            action.args_schema, action.func)

\* MakeTool without the cdp_agentkit_wrapper keyword: the field keeps None.
MakeTool_unbound(action, cdp_agentkit_wrapper) ==
    CdpTool(action.name, action.description, None,
            action.args_schema, action.func)

\* The keyword arguments of the comprehension's CdpTool(...) call.
MakeTool(action, cdp_agentkit_wrapper) ==
    CdpTool(action.name, action.description, cdp_agentkit_wrapper,
            action.args_schema, action.func)

\* BuildTools that skips an action whose name was already seen.
BuildTools_dedup(actions, cdp_agentkit_wrapper) ==
    LET Seen(k) == \E m \in 1..(k-1) : actions[m].name = actions[k].name
        Acc[k \in 0..Len(actions)] ==
            IF k = 0 THEN <<>>
            ELSE IF Seen(k) THEN Acc[k-1]
            ELSE Append(Acc[k-1], MakeTool(actions[k], cdp_agentkit_wrapper))
    IN Acc[Len(actions)]

\* BuildTools over reversed(actions).
BuildTools_reversed(actions, cdp_agentkit_wrapper) ==
    [k \in 1..Len(actions) |->
        MakeTool(actions[Len(actions) + 1 - k], cdp_agentkit_wrapper)]

\* tools = [CdpTool(...) for action in actions]
BuildTools(actions, cdp_agentkit_wrapper) ==
    [k \in 1..Len(actions) |-> MakeTool(actions[k], cdp_agentkit_wrapper)]

\* The exception that leaves the comprehension: that of the first action
\* that raises, since nothing in the method catches it.
FirstError(actions) ==
    IF \E k \in 1..Len(actions) : actions[k].raises # NoError
    THEN LET k == CHOOSE j \in 1..Len(actions) :
                    /\ actions[j].raises # NoError
                    /\ \A m \in 1..(j-1) : actions[m].raises = NoError
         IN actions[k].raises
    ELSE NoError

\* cls(tools=tools): the instance holds the list it was given.
CdpToolkit(tools) == [tools |-> tools]

\* get_tools that wraps the registry anew on every call.
get_tools_rebuilt(self) ==
    BuildTools(CDP_ACTIONS,
               IF self.tools = <<>> THEN None
               ELSE self.tools[1].cdp_agentkit_wrapper)

\* return self.tools
get_tools(self) == self.tools

Call(op, self, w, outcome, error, value) ==
    [op |-> op, self |-> self, w |-> w, outcome |-> outcome,
     error |-> error, value |-> value]

Init ==
    /\ CDP_ACTIONS \in SeqUpTo(ActionPool, MaxActions)
    /\ cdp_agentkit_wrappers \in [WrapperIds -> [initialized : BOOLEAN]]
    /\ class_tools = <<>>
    /\ toolkits = <<>>
    /\ history = <<>>
    /\ last = Call("none", 0, None, "none", NoError, <<>>)

\* What a construction call that returns leaves behind, for later reference:
\* the registry it read, the wrapper it was given, the list it stored.
Constructed(actions, w, tools) == [actions |-> actions, w |-> w, tools |-> tools]

\* from_cdp_agentkit_wrapper that extends the class attribute CdpToolkit.tools
\* and builds the instance from it.
from_cdp_agentkit_wrapper_accumulating(w) ==
    /\ Len(history) < MaxToolkits
    /\ LET actions == CDP_ACTIONS
           err == FirstError(actions)
           tools == class_tools \o BuildTools(actions, w)
       IN IF err # NoError
          THEN /\ last' = Call("from_cdp_agentkit_wrapper", 0, w, "raise", err, <<>>)
               /\ UNCHANGED <<toolkits, history, class_tools>>
          ELSE /\ class_tools' = tools
               /\ toolkits' = Append(toolkits, CdpToolkit(tools))
               /\ history' = Append(history, Constructed(actions, w, tools))
               /\ last' = Call("from_cdp_agentkit_wrapper", Len(toolkits) + 1, w,
                               "return", NoError, tools)
    /\ UNCHANGED <<CDP_ACTIONS, cdp_agentkit_wrappers>>

\* from_cdp_agentkit_wrapper that assigns the class attribute, which every
\* instance then reads.
from_cdp_agentkit_wrapper_shared(w) ==
    /\ Len(history) < MaxToolkits
    /\ LET actions == CDP_ACTIONS
           err == FirstError(actions)
           tools == BuildTools(actions, w)
       IN IF err # NoError
          THEN /\ last' = Call("from_cdp_agentkit_wrapper", 0, w, "raise", err, <<>>)
               /\ UNCHANGED <<toolkits, history, class_tools>>
          ELSE /\ class_tools' = tools
               /\ toolkits' = [i \in 1..(Len(toolkits) + 1) |-> CdpToolkit(tools)]
               /\ history' = Append(history, Constructed(actions, w, tools))
               /\ last' = Call("from_cdp_agentkit_wrapper", Len(toolkits) + 1, w,
                               "return", NoError, tools)
    /\ UNCHANGED <<CDP_ACTIONS, cdp_agentkit_wrappers>>

\* from_cdp_agentkit_wrapper with a try/except around each CdpTool(...) that
\* skips the action that raised.
from_cdp_agentkit_wrapper_skipping(w) ==
    /\ Len(history) < MaxToolkits
    /\ LET actions == SelectSeq(CDP_ACTIONS, LAMBDA a : a.raises = NoError)
           tools == BuildTools(actions, w)
       IN /\ toolkits' = Append(toolkits, CdpToolkit(tools))
          /\ history' = Append(history, Constructed(CDP_ACTIONS, w, tools))
          /\ last' = Call("from_cdp_agentkit_wrapper", Len(toolkits) + 1, w,
                          "return", NoError, tools)
    /\ UNCHANGED <<CDP_ACTIONS, cdp_agentkit_wrappers, class_tools>>

\* from_cdp_agentkit_wrapper that pops the actions off the registry as it
\* wraps them.
from_cdp_agentkit_wrapper_draining(w) ==
    /\ Len(history) < MaxToolkits
    /\ LET actions == CDP_ACTIONS
           err == FirstError(actions)
           tools == BuildTools(actions, w)
       IN IF err # NoError
          THEN /\ last' = Call("from_cdp_agentkit_wrapper", 0, w, "raise", err, <<>>)
               /\ UNCHANGED <<toolkits, history, CDP_ACTIONS>>
          ELSE /\ CDP_ACTIONS' = <<>>
               /\ toolkits' = Append(toolkits, CdpToolkit(tools))
               /\ history' = Append(history, Constructed(actions, w, tools))
               /\ last' = Call("from_cdp_agentkit_wrapper", Len(toolkits) + 1, w,
                               "return", NoError, tools)
    /\ UNCHANGED <<cdp_agentkit_wrappers, class_tools>>

\* CdpToolkit.from_cdp_agentkit_wrapper(cdp_agentkit_wrapper): the registry
\* is read, one CdpTool is built per action, and cls(tools=tools) is returned;
\* an exception raised on the way leaves the method as it is.
from_cdp_agentkit_wrapper(w) ==
    /\ Len(history) < MaxToolkits
    /\ LET actions == CDP_ACTIONS
           err == FirstError(actions)
           tools == BuildTools(actions, w)
       IN IF err # NoError
          THEN /\ last' = Call("from_cdp_agentkit_wrapper", 0, w, "raise", err, <<>>)
               /\ UNCHANGED <<toolkits, history>>
          ELSE /\ toolkits' = Append(toolkits, CdpToolkit(tools))
               /\ history' = Append(history, Constructed(actions, w, tools))
               /\ last' = Call("from_cdp_agentkit_wrapper", Len(toolkits) + 1, w,
                               "return", NoError, tools)
    /\ UNCHANGED <<CDP_ACTIONS, cdp_agentkit_wrappers, class_tools>>

\* GetTools that hands the list out by popping it off the instance.
GetTools_popping(i) ==
    /\ i \in 1..Len(toolkits)
    /\ last' = Call("get_tools", i, None, "return", NoError, get_tools(toolkits[i]))
    /\ toolkits' = [toolkits EXCEPT ![i] = CdpToolkit(<<>>)]
    /\ UNCHANGED <<CDP_ACTIONS, cdp_agentkit_wrappers, class_tools, history>>

\* toolkit.get_tools() on the i-th toolkit constructed
GetTools(i) ==
    /\ i \in 1..Len(toolkits)
    /\ last' = Call("get_tools", i, None, "return", NoError, get_tools(toolkits[i]))
    /\ UNCHANGED <<CDP_ACTIONS, cdp_agentkit_wrappers, class_tools, toolkits, history>>

\* The registry's owner appends an action: CDP_ACTIONS.append(action).
RegisterAction(action) ==
    /\ Len(CDP_ACTIONS) < MaxActions
    /\ CDP_ACTIONS' = Append(CDP_ACTIONS, action)
    /\ last' = Call("register", 0, None, "none", NoError, <<>>)
    /\ UNCHANGED <<cdp_agentkit_wrappers, class_tools, toolkits, history>>

Next ==
    \/ \E w \in WrapperIds : from_cdp_agentkit_wrapper(w)
    \/ \E i \in 1..MaxToolkits : GetTools(i)
    \/ \E action \in ActionPool : RegisterAction(action)

Spec == Init /\ [][Next]_vars

\* The call just made was from_cdp_agentkit_wrapper and it returned a toolkit.
ConstructReturned ==
    last.op = "from_cdp_agentkit_wrapper" /\ last.outcome = "return"

\* C1: a toolkit returned by from_cdp_agentkit_wrapper holds exactly as many
\* tools as the registry has actions: none filtered out, deduplicated or
\* added, the empty registry and repeated or equal-named actions included.
C1_OneToolPerAction ==
    ConstructReturned =>
        /\ Len(last.value) = Len(CDP_ACTIONS)
        /\ Len(get_tools(toolkits[last.self])) = Len(CDP_ACTIONS)

\* C1 witness: a toolkit built from a registry of two equal-named actions.
C1_Witness ==
    /\ ConstructReturned
    /\ Len(CDP_ACTIONS) = 2
    /\ CDP_ACTIONS[1].name = CDP_ACTIONS[2].name
    /\ Len(last.value) = 2

\* C2: the k-th tool get_tools returns is the one built from the k-th action
\* of the registry the toolkit was constructed from.
C2_RegistryOrder ==
    \A i \in 1..Len(toolkits) :
        LET tools == get_tools(toolkits[i])
            actions == history[i].actions
        IN \A k \in 1..Len(tools) :
              /\ k <= Len(actions)
              /\ tools[k].name = actions[k].name
              /\ tools[k].func = actions[k].func

\* C2 witness: get_tools returned get_balance then transfer.
C2_Witness ==
    /\ last.op = "get_tools"
    /\ Len(last.value) = 2
    /\ last.value[1].name = "get_balance"
    /\ last.value[2].name = "transfer"
    /\ history[last.self].actions[1].name = "get_balance"
    /\ history[last.self].actions[2].name = "transfer"

\* C3: each tool's name, description, args_schema and func are those of the
\* action at the same position of the registry it was built from.
C3_FieldsCopied ==
    \A i \in 1..Len(toolkits) :
        \A k \in 1..Len(toolkits[i].tools) :
            LET tool == toolkits[i].tools[k]
                action == history[i].actions[k]
            IN /\ tool.name = action.name
               /\ tool.description = action.description
               /\ tool.args_schema = action.args_schema
               /\ tool.func = action.func

\* C3 witness: a toolkit over two actions that differ in every field.
C3_Witness ==
    \E i \in 1..Len(toolkits) :
        /\ Len(toolkits[i].tools) = 2
        /\ toolkits[i].tools[1].name # toolkits[i].tools[2].name
        /\ toolkits[i].tools[1].description # toolkits[i].tools[2].description
        /\ toolkits[i].tools[1].args_schema # toolkits[i].tools[2].args_schema
        /\ toolkits[i].tools[1].func # toolkits[i].tools[2].func

\* C4: every tool of a toolkit holds the wrapper its construction call was
\* given, never another one and never None.
C4_WrapperBound ==
    \A i \in 1..Len(toolkits) :
        \A k \in 1..Len(toolkits[i].tools) :
            toolkits[i].tools[k].cdp_agentkit_wrapper = history[i].w

\* C4 witness: a toolkit of two tools constructed with w2.
C4_Witness ==
    \E i \in 1..Len(toolkits) :
        /\ history[i].w = "w2"
        /\ Len(toolkits[i].tools) = 2
        /\ toolkits[i].tools[2].cdp_agentkit_wrapper = "w2"

\* C5: every get_tools call returns the list stored at construction, so any
\* two calls on a toolkit return equal lists.
C5_GetToolsIdempotent ==
    last.op = "get_tools" => last.value = history[last.self].tools

\* C5 witness: get_tools on a non-empty toolkit after the registry has grown
\* past what the toolkit was constructed from.
C5_Witness ==
    /\ last.op = "get_tools"
    /\ Len(last.value) = 1
    /\ Len(CDP_ACTIONS) = 2

\* C6: a get_tools call changes neither the toolkits and their tools, nor
\* the registry, nor the wrappers, nor the class attribute.
C6_GetToolsNoSideEffect ==
    [][last'.op = "get_tools" =>
          UNCHANGED <<toolkits, CDP_ACTIONS, cdp_agentkit_wrappers, class_tools>>]_vars

\* C6 witness: get_tools was called on the second of two toolkits.
C6_Witness ==
    /\ last.op = "get_tools"
    /\ last.self = 2
    /\ Len(toolkits[1].tools) > 0
    /\ Len(toolkits[2].tools) > 0

\* C7: at all times a toolkit's list is as long as the registry was when it
\* was constructed and is the list stored then, whatever get_tools calls and
\* registry changes follow; a constructed toolkit never changes again.
C7_FixedAtConstruction ==
    /\ [](\A i \in 1..Len(toolkits) :
             /\ Len(toolkits[i].tools) = Len(history[i].actions)
             /\ toolkits[i].tools = history[i].tools)
    /\ [][\A i \in 1..Len(toolkits) :
             i <= Len(toolkits') /\ toolkits'[i] = toolkits[i]]_vars

\* C7 witness: a toolkit constructed from a one-action registry that has
\* since grown to two actions, after a get_tools call on it.
C7_Witness ==
    /\ Len(toolkits) = 2
    /\ Len(history[1].actions) = 1
    /\ Len(history[2].actions) = 1
    /\ Len(CDP_ACTIONS) = 2
    /\ last.op = "get_tools"
    /\ last.self = 1

\* C8: when an action of the registry raises, from_cdp_agentkit_wrapper
\* raises that same exception and no toolkit, partial or other, is made.
C8_ErrorPropagates ==
    [][(last'.op = "from_cdp_agentkit_wrapper" /\ FirstError(CDP_ACTIONS) # NoError) =>
          /\ last'.outcome = "raise"
          /\ last'.error = FirstError(CDP_ACTIONS)
          /\ toolkits' = toolkits]_vars

\* C8 witness: construction raised ValidationError on the second action of a
\* registry whose first action wraps.
C8_Witness ==
    /\ last.op = "from_cdp_agentkit_wrapper"
    /\ last.outcome = "raise"
    /\ last.error = "ValidationError"
    /\ Len(CDP_ACTIONS) = 2
    /\ CDP_ACTIONS[1].raises = NoError

\* C9: from_cdp_agentkit_wrapper changes neither the registry nor the
\* wrappers, and it returns a toolkit whenever the actions wrap, whatever
\* the state of the wrapper it is given.
C9_ConstructionReadsOnly ==
    [][last'.op = "from_cdp_agentkit_wrapper" =>
          /\ UNCHANGED <<CDP_ACTIONS, cdp_agentkit_wrappers>>
          /\ (FirstError(CDP_ACTIONS) = NoError => last'.outcome = "return")]_vars

\* C9 witness: a toolkit of two tools returned for a wrapper that is not
\* initialized.
C9_Witness ==
    /\ ConstructReturned
    /\ ~cdp_agentkit_wrappers[last.w].initialized
    /\ Len(last.value) = 2
    /\ Len(CDP_ACTIONS) = 2

\* C10: constructing a further toolkit leaves what get_tools returns for
\* every earlier toolkit as it was, and each toolkit's tools hold the wrapper
\* of its own construction call.
C10_ToolkitsIndependent ==
    [][(last'.op = "from_cdp_agentkit_wrapper" /\ last'.outcome = "return") =>
          /\ \A i \in 1..Len(toolkits) :
                /\ i <= Len(toolkits')
                /\ get_tools(toolkits'[i]) = get_tools(toolkits[i])
          /\ \A i \in 1..Len(toolkits') :
                \A k \in 1..Len(get_tools(toolkits'[i])) :
                    get_tools(toolkits'[i])[k].cdp_agentkit_wrapper = history'[i].w]_vars

\* C10 witness: two toolkits with different tools and different wrappers,
\* the second just constructed.
C10_Witness ==
    /\ ConstructReturned
    /\ last.self = 2
    /\ history[1].w # history[2].w
    /\ Len(toolkits[1].tools) > 0
    /\ toolkits[1].tools # toolkits[2].tools
    /\ history[1].actions # history[2].actions

====
